---- MODULE Spec2Model ----
(***************************************************************************)
(* Model of spacepy/datamodel.py: dmarray (a numpy.ndarray subclass that   *)
(* carries .attrs and gates __setattr__ with Allowed_Attributes) and       *)
(* SpaceData (a dict subclass that carries .attrs).                        *)
(*                                                                         *)
(* Python values are references.  Every attribute of a dmarray holds a     *)
(* reference (an index into heap) to a dict object; two attributes that    *)
(* hold the same index are the same object, so a mutation through one is   *)
(* seen through the other.  Index 0 means "the instance has no such        *)
(* attribute".  A dict is a set of <<key, value>> pairs with unique keys.  *)
(***************************************************************************)
EXTENDS Integers, Sequences, FiniteSets, TLC

VARIABLES inst, heap, clsAllowed, last, origin, sd

vars == <<inst, heap, clsAllowed, last, origin, sd>>

\* ----------------------------------------------------------------- bounds

MaxInst == 2

MaxExtra == 1

NumVals == 1

NumBufs == 2

\* ------------------------------------------------------------ value sets

Keys == {"k"}

Vals == 1..NumVals

Bufs == 1..NumBufs

EmptyDict == {}

\* every dict over Keys and Vals (unique keys)
Dicts == {d \in SUBSET (Keys \X Vals) : \A p \in d, q \in d : p[1] = q[1] => p = q}

DictSet(d, k, v) == {p \in d : p[1] # k} \cup {<<k, v>>}

DictDel(d, k) == {p \in d : p[1] # k}

ExtraName(val) == "extra_attr_" \o ToString(val)

ExtraNames == {ExtraName(n) : n \in 1..MaxExtra}

\* the attribute names an instance of the model can hold
SlotNames == {"attrs"} \cup ExtraNames

\* a fixed order of SlotNames, used only to number live objects
SlotOrder == <<"attrs">> \o [n \in 1..MaxExtra |-> ExtraName(n)]

InList(x, L) == \E p \in 1..Len(L) : L[p] = x

\* -------------------------------------------------------------- dmarray

\* the class attribute of line 42
ClassDefault == <<"attrs">>

\* an ndarray (or a just-allocated dmarray) over buffer b with no attribute
Blank(b) == [buf |-> b, hasAA |-> FALSE, aa |-> <<>>,
             attr |-> [n \in SlotNames |-> 0]]

\* self.Allowed_Attributes: the instance attribute if set, else the class's
AllowedOf(o, cls) == IF o.hasAA THEN o.aa ELSE cls

HasAttr(o, name) == o.attr[name] # 0

\* __setattr__, lines 97-100: the gate
Permitted(o, cls, name) ==
    IF name = "Allowed_Attributes" THEN TRUE
    ELSE InList(name, AllowedOf(o, cls))

\* __setattr__, line 101, for a name other than Allowed_Attributes
StoreAttr(o, name, r) == [o EXCEPT !.attr[name] = r]

\* StoreAllowed with the list bound on the class instead of the instance
StoreAllowed_OnClass(o, cls, L) == [o |-> o, cls |-> L]

\* __setattr__, line 101, for Allowed_Attributes: object.__setattr__ binds the
\* name on the instance and leaves the class attribute cls as it is
StoreAllowed(o, cls, L) ==
    [o |-> [o EXCEPT !.hasAA = TRUE, !.aa = L], cls |-> cls]

\* __setattr__(name, r) for an attribute value r; ok = FALSE is the TypeError
dm_setattr(o, cls, name, r) ==
    IF Permitted(o, cls, name)
    THEN [ok |-> TRUE, o |-> StoreAttr(o, name, r)]
    ELSE [ok |-> FALSE, o |-> o]

\* numpy.asarray(input_array): a base-class ndarray on the same buffer;
\* a base-class ndarray has none of the subclass's attributes
AsArray(x) == Blank(x.buf)

RECURSIVE FinalizeFrom(_, _, _, _, _, _)
\* __array_finalize__, lines 60-61, from position p of the list L
FinalizeFrom(self, obj, cls, L, p, h) ==
    IF p > Len(L) THEN [o |-> self, h |-> h]
    ELSE LET val == L[p]
             has == HasAttr(obj, val)
             h2 == IF has THEN h ELSE Append(h, EmptyDict)
             r == IF has THEN obj.attr[val] ELSE Len(h2)
         IN FinalizeFrom(dm_setattr(self, cls, val, r).o, obj, cls, L, p + 1, h2)

\* dm_array_finalize returning before it copies anything
dm_array_finalize_NoCopy(self, obj, isNone, cls, h) == [o |-> self, h |-> h]

\* __array_finalize__(self, obj); isNone is "obj is None"
dm_array_finalize(self, obj, isNone, cls, h) ==
    IF isNone THEN [o |-> self, h |-> h]
    ELSE FinalizeFrom(self, obj, cls, AllowedOf(self, cls), 1, h)

\* dm_new with numpy.asanyarray (the input keeps its subclass and its
\* attributes) and without the else branch of lines 51-52
dm_new_KeepInput(x, hasM, m, cls, h) ==
    LET v == FinalizeFrom(Blank(x.buf), x, cls, AllowedOf(Blank(x.buf), cls), 1, h)
        h2 == Append(v.h, m)
    IN IF hasM THEN [o |-> dm_setattr(v.o, cls, "attrs", Len(h2)).o, h |-> h2]
       ELSE v

\* __new__(cls, input_array, attrs): x is the input, m the contents of the
\* supplied mapping when hasM
dm_new(x, hasM, m, cls, h) ==
    LET v == dm_array_finalize(Blank(x.buf), AsArray(x), FALSE, cls, h)
        h2 == Append(v.h, IF hasM THEN m ELSE EmptyDict)
    IN [o |-> dm_setattr(v.o, cls, "attrs", Len(h2)).o, h |-> h2]

\* numpy.ndarray.__reduce__ / __setstate__ (lines 71, 82): numpy's own state
\* of the buffer, which numpy restores as it was saved
NdReduce(b) == b

NdSetstate(self, nd) == [self EXCEPT !.buf = nd]

\* __reduce__, lines 71-74: the buffer state and the tuple of the values of
\* the allow-listed attributes, in list order; pickling stores the contents
\* of each value.  ok = FALSE is the AttributeError of __getattribute__ on a
\* listed name the instance does not hold.
dm_reduce(o, cls, h) ==
    LET L == AllowedOf(o, cls)
        ok == \A p \in 1..Len(L) : HasAttr(o, L[p])
    IN [ok |-> ok, nd |-> NdReduce(o.buf),
        own |-> IF ok THEN [p \in 1..Len(L) |-> h[o.attr[L[p]]]] ELSE <<>>]

\* ExtendAllowed with the operands of + swapped
ExtendAllowed_Prepend(L, val) == <<ExtraName(val)>> \o L

\* line 87: the list assigned to self.Allowed_Attributes
ExtendAllowed(L, val) == L \o <<ExtraName(val)>>

RECURSIVE SetstateFrom(_, _, _, _, _)
\* __setstate__, lines 83-88, from the (0-based) position val of own_state;
\* each unpickled value is a new object
SetstateFrom(self, cls, own, val, h) ==
    IF val >= Len(own) THEN [ok |-> TRUE, o |-> self, cls |-> cls, h |-> h]
    ELSE LET h2 == Append(h, own[val + 1])
             r == Len(h2)
         IN IF val = 0
            THEN LET s == dm_setattr(self, cls, "attrs", r)
                 IN IF s.ok THEN SetstateFrom(s.o, cls, own, val + 1, h2)
                    ELSE [ok |-> FALSE, o |-> self, cls |-> cls, h |-> h]
            ELSE LET b == StoreAllowed(self, cls,
                                       ExtendAllowed(AllowedOf(self, cls), val))
                     s == dm_setattr(b.o, b.cls, ExtraName(val), r)
                 IN IF s.ok THEN SetstateFrom(s.o, b.cls, own, val + 1, h2)
                    ELSE [ok |-> FALSE, o |-> b.o, cls |-> b.cls, h |-> h]

\* __setstate__(self, state), lines 81-88
dm_setstate(self, cls, state, h) ==
    SetstateFrom(NdSetstate(self, state.nd), cls, state.own, 0, h)

\* unpickling: numpy's _reconstruct allocates the instance over an empty
\* buffer (0) with obj = None (lines 58-59), then __setstate__ runs on it
dm_unpickle(cls, state, h) ==
    dm_setstate(dm_array_finalize(Blank(0), Blank(0), TRUE, cls, h).o,
                cls, state, h)

\* ------------------------------------------------ object lifetime (heap)

RECURSIVE Scan(_, _, _)
\* the objects some instance references, in order of first reference
Scan(insts, p, acc) ==
    IF p > Len(insts) * Len(SlotOrder) THEN acc
    ELSE LET i == ((p - 1) \div Len(SlotOrder)) + 1
             n == ((p - 1) % Len(SlotOrder)) + 1
             r == insts[i].attr[SlotOrder[n]]
         IN Scan(insts, p + 1,
                 IF r = 0 \/ InList(r, acc) THEN acc ELSE Append(acc, r))

Pos(r, L) == CHOOSE p \in 1..Len(L) : L[p] = r

\* unreferenced objects are freed; the live ones are renumbered in Scan
\* order (an object's index is only ever compared for equality)
Collect(insts, h) ==
    LET live == Scan(insts, 1, <<>>)
    IN [inst |-> [i \in 1..Len(insts) |->
                    [insts[i] EXCEPT !.attr =
                        [n \in SlotNames |->
                            IF insts[i].attr[n] = 0 THEN 0
                            ELSE Pos(insts[i].attr[n], live)]]],
        heap |-> [q \in 1..Len(live) |-> h[live[q]]]]

\* ------------------------------------------------------- inputs and state

\* the names a caller tries to set (besides Allowed_Attributes)
CallerNames == SlotNames \cup {"foo"}

\* what a caller assigns to Allowed_Attributes
CallerLists == {<<>>, <<ExtraName(1), "attrs">>}

\* persisted states written by an earlier version of the class whose
\* Allowed_Attributes held up to MaxExtra further names after attrs
LegacyStates ==
    {[nd |-> b, own |-> w] :
        b \in Bufs, w \in UNION {[1..n -> Dicts] : n \in 1..(MaxExtra + 1)}}

\* the last operation: its inputs and whether it raised
NoOp == [op |-> "none", ok |-> TRUE, src |-> 0, dst |-> 0, name |-> "",
         hasM |-> FALSE, m |-> EmptyDict, own |-> <<>>]

\* SpaceData: values are opaque objects; getitem says whether the object has
\* __getitem__; id 0 with getitem is the empty dict {}
PyVals == [getitem : BOOLEAN, id : 1..NumVals]

EmptyAttrs == [getitem |-> TRUE, id |-> 0]

\* the keys of the positional mapping and the keyword names
SDKeys == {"x", "attrs"}

\* every mapping from some of SDKeys to PyVals, as a set of <<key, value>>
SDMaps == {d \in SUBSET (SDKeys \X PyVals) : \A p \in d, q \in d : p[1] = q[1] => p = q}

\* no SpaceData yet; args and kwargs are the arguments of the pending call
NoSD == [called |-> FALSE, made |-> FALSE, hasAttrs |-> FALSE,
         attrs |-> EmptyAttrs, content |-> {}, args |-> <<>>, kwargs |-> {}]

Init ==
    /\ inst = <<>>
    /\ heap = <<>>
    /\ clsAllowed = ClassDefault
    /\ last = NoOp
    /\ origin = <<>>
    /\ sd = NoSD

AttrsOf(o, h) == IF HasAttr(o, "attrs") THEN h[o.attr["attrs"]] ELSE EmptyDict

\* the state after an operation that leaves the instances insts over heap h
Commit(insts, h) ==
    LET c == Collect(insts, h)
    IN inst' = c.inst /\ heap' = c.heap

\* ------------------------------------------------------------- operations

\* dmarray(input_array, attrs): input_array is a raw array-like over buffer
\* b (x = 0) or the existing dmarray x
Construct ==
    \E x \in 0..Len(inst), b \in Bufs, hasM \in BOOLEAN, m \in Dicts :
        /\ Len(inst) < MaxInst
        /\ x # 0 => b = inst[x].buf
        /\ ~hasM => m = EmptyDict
        /\ LET v == dm_new(IF x = 0 THEN Blank(b) ELSE inst[x], hasM, m,
                           clsAllowed, heap)
           IN Commit(Append(inst, v.o), v.h)
        /\ origin' = Append(origin, 0)
        /\ last' = [NoOp EXCEPT !.op = "Construct", !.src = x,
                                !.dst = Len(inst) + 1, !.hasM = hasM, !.m = m]
        /\ UNCHANGED <<clsAllowed, sd>>

\* numpy derives a new dmarray (a slice, a view, a ufunc output) from the
\* dmarray s, or views a plain ndarray over buffer b when s = 0, and calls
\* __array_finalize__(new, source)
Derive ==
    \E s \in 0..Len(inst), b \in Bufs :
        /\ Len(inst) < MaxInst
        /\ s # 0 => b = inst[s].buf
        /\ LET v == dm_array_finalize(Blank(b),
                                      IF s = 0 THEN Blank(b) ELSE inst[s],
                                      FALSE, clsAllowed, heap)
           IN Commit(Append(inst, v.o), v.h)
        /\ origin' = Append(origin, s)
        /\ last' = [NoOp EXCEPT !.op = "Derive", !.src = s,
                                !.dst = Len(inst) + 1]
        /\ UNCHANGED <<clsAllowed, sd>>

\* a caller's instance.name = value, for a new dict value with contents m
SetAttribute ==
    \E i \in 1..Len(inst), name \in CallerNames, m \in Dicts :
        /\ LET h2 == Append(heap, m)
               s == dm_setattr(inst[i], clsAllowed, name, Len(h2))
           IN /\ Commit([inst EXCEPT ![i] = s.o], h2)
              /\ last' = [NoOp EXCEPT !.op = "SetAttribute", !.ok = s.ok,
                                      !.dst = i, !.name = name]
        /\ UNCHANGED <<clsAllowed, origin, sd>>

\* a caller's instance.Allowed_Attributes = L
SetAllowedAttributes ==
    \E i \in 1..Len(inst), L \in CallerLists :
        /\ Permitted(inst[i], clsAllowed, "Allowed_Attributes")
        /\ LET b == StoreAllowed(inst[i], clsAllowed, L)
           IN /\ Commit([inst EXCEPT ![i] = b.o], heap)
              /\ clsAllowed' = b.cls
        /\ last' = [NoOp EXCEPT !.op = "SetAttribute", !.dst = i,
                                !.name = "Allowed_Attributes"]
        /\ UNCHANGED <<origin, sd>>

\* a caller's instance.attrs[k] = v, or del instance.attrs[k] when del
MutateAttrs ==
    \E i \in 1..Len(inst), k \in Keys, v \in Vals, del \in BOOLEAN :
        /\ HasAttr(inst[i], "attrs")
        /\ LET r == inst[i].attr["attrs"]
           IN Commit(inst, [heap EXCEPT ![r] = IF del THEN DictDel(@, k)
                                               ELSE DictSet(@, k, v)])
        /\ last' = [NoOp EXCEPT !.op = "Mutate"]
        /\ UNCHANGED <<clsAllowed, origin, sd>>

\* the state st is unpickled into a new instance; when __setstate__ raises
\* no instance is produced
Unpickle(st, src) ==
    LET v == dm_unpickle(clsAllowed, st, heap)
    IN IF v.ok
       THEN /\ Commit(Append(inst, v.o), v.h)
            /\ clsAllowed' = v.cls
            /\ origin' = Append(origin, 0)
            /\ last' = [NoOp EXCEPT !.op = "Deserialize", !.src = src,
                                    !.dst = Len(inst) + 1, !.own = st.own]
            /\ UNCHANGED sd
       ELSE /\ last' = [NoOp EXCEPT !.op = "Deserialize", !.ok = FALSE,
                                    !.src = src, !.own = st.own]
            /\ UNCHANGED <<inst, heap, clsAllowed, origin, sd>>

\* pickle.loads(pickle.dumps(instance)): __reduce__, then __setstate__ on a
\* new instance; when __reduce__ raises there is nothing to load
RoundTrip ==
    \E i \in 1..Len(inst) :
        /\ Len(inst) < MaxInst
        /\ LET s == dm_reduce(inst[i], clsAllowed, heap)
           IN IF s.ok
              THEN Unpickle([nd |-> s.nd, own |-> s.own], i)
              ELSE /\ last' = [NoOp EXCEPT !.op = "Serialize", !.ok = FALSE,
                                           !.src = i]
                   /\ UNCHANGED <<inst, heap, clsAllowed, origin, sd>>

\* pickle.loads of a legacy persisted value
DeserializeLegacy ==
    \E st \in LegacyStates :
        /\ Len(inst) < MaxInst
        /\ Unpickle(st, 0)

\* -------------------------------------------------------------- SpaceData

HasKey(d, k) == \E p \in d : p[1] = k

Get(d, k) == (CHOOSE p \in d : p[1] = k)[2]

\* dict.__init__(*args, **kwargs), called on line 129: at most one positional
\* mapping, whose entries the keyword pairs override; ok = FALSE is dict's
\* TypeError for more than one positional argument
dict_init(args, kwargs) ==
    IF Len(args) > 1 THEN [ok |-> FALSE, content |-> {}]
    ELSE [ok |-> TRUE,
          content |-> (IF Len(args) = 1
                       THEN {p \in args[1] : ~HasKey(kwargs, p[1])}
                       ELSE {}) \cup kwargs]

\* SpaceData_init with line 127 (del kwargs['attrs']) inside the hasattr test
SpaceData_init_DelInsideIf(args, kwargs) ==
    LET given == HasKey(kwargs, "attrs")
        used == given /\ Get(kwargs, "attrs").getitem
        attrs == IF used THEN Get(kwargs, "attrs") ELSE EmptyAttrs
        kw == IF used THEN DictDel(kwargs, "attrs") ELSE kwargs
        d == dict_init(args, kw)
    IN [called |-> TRUE, made |-> d.ok, hasAttrs |-> TRUE, attrs |-> attrs,
        content |-> d.content, args |-> args, kwargs |-> kwargs]

\* SpaceData.__init__(self, *args, **kwargs), lines 123-129
SpaceData_init(args, kwargs) ==
    LET given == HasKey(kwargs, "attrs")
        attrs == IF given /\ Get(kwargs, "attrs").getitem
                 THEN Get(kwargs, "attrs")
                 ELSE EmptyAttrs
        kw == IF given THEN DictDel(kwargs, "attrs") ELSE kwargs
        d == dict_init(args, kw)
    IN [called |-> TRUE, made |-> d.ok, hasAttrs |-> TRUE, attrs |-> attrs,
        content |-> d.content, args |-> args, kwargs |-> kwargs]

\* SpaceData(*args, **kwargs) on the pending arguments
SDConstruct ==
    /\ ~sd.called
    /\ sd' = SpaceData_init(sd.args, sd.kwargs)
    /\ UNCHANGED <<inst, heap, clsAllowed, last, origin>>

Next ==
    \/ Construct
    \/ Derive
    \/ SetAttribute
    \/ SetAllowedAttributes
    \/ MutateAttrs
    \/ RoundTrip
    \/ DeserializeLegacy

Spec == Init /\ [][Next]_vars

\* a call SpaceData(*args, **kwargs) is pending, for every choice of up to
\* two positional mappings and of the keyword pairs
InitSD ==
    /\ inst = <<>>
    /\ heap = <<>>
    /\ clsAllowed = ClassDefault
    /\ last = NoOp
    /\ origin = <<>>
    /\ \E args \in UNION {[1..n -> SDMaps] : n \in 0..2}, kwargs \in SDMaps :
          sd = [NoSD EXCEPT !.args = args, !.kwargs = kwargs]

NextSD == SDConstruct

SpecSD == InitSD /\ [][NextSD]_vars

\* ------------------------------------------------------------------ claims

Insts == 1..Len(inst)

Allowed(i) == AllowedOf(inst[i], clsAllowed)

Attrs(i) == AttrsOf(inst[i], heap)

\* the allow-list __setstate__ leaves after k extra slots
ExtendedList(k) == <<"attrs">> \o [n \in 1..k |-> ExtraName(n)]

\* C1 (as claimed): a SetAttribute(n, v) step succeeds exactly when n is
\* "attrs" or n is in the instance's allow-list before the step, and raises
\* the TypeError otherwise.
C1_GateOnlyAttrsOrListed ==
    [][last'.op = "SetAttribute" =>
        (last'.ok <=> (\/ last'.name = "attrs"
                       \/ InList(last'.name, Allowed(last'.dst))))]_vars

\* C2: right after a Derive, the derived instance has attrs; its attrs
\* equals the source's attrs when the source has one, and is the empty
\* mapping when the source is a plain array (or has no attrs).
C2_DerivePreservesAttrs ==
    last.op = "Derive" =>
        /\ HasAttr(inst[last.dst], "attrs")
        /\ Attrs(last.dst) = IF last.src # 0 /\ HasAttr(inst[last.src], "attrs")
                             THEN Attrs(last.src)
                             ELSE EmptyDict

C2_Witness ==
    /\ last.op = "Derive"
    /\ last.src # 0
    /\ HasAttr(inst[last.src], "attrs")
    /\ Attrs(last.src) # EmptyDict
    /\ Attrs(last.dst) = Attrs(last.src)

\* C3 (as claimed): Serialize of a reachable instance succeeds, and the
\* instance that Deserialize(Serialize(a)) yields has a's buffer state and
\* an attrs equal to a.attrs.
C3_RoundTrip ==
    /\ last.op = "Serialize" => last.ok
    /\ (last.op = "Deserialize" /\ last.src # 0) =>
          /\ last.ok
          /\ inst[last.dst].buf = inst[last.src].buf
          /\ HasAttr(inst[last.src], "attrs") =>
                /\ HasAttr(inst[last.dst], "attrs")
                /\ Attrs(last.dst) = Attrs(last.src)

\* The round trip of C3 for the instances whose allow-list no caller has
\* assigned (the class's list, or a list __setstate__ extended).
RoundTripOfUntouchedList ==
    (/\ last.op \in {"Serialize", "Deserialize"}
     /\ last.src # 0
     /\ \E k \in 0..MaxExtra : Allowed(last.src) = ExtendedList(k)) =>
        /\ last.ok
        /\ last.op = "Deserialize"
        /\ inst[last.dst].buf = inst[last.src].buf
        /\ HasAttr(inst[last.dst], "attrs")
        /\ Attrs(last.dst) = Attrs(last.src)

\* C4: right after Construct(x, attrs=m) the instance's attrs equals m, and
\* right after Construct(x) it is the empty mapping, whatever x is.
C4_ConstructAttrs ==
    last.op = "Construct" =>
        /\ HasAttr(inst[last.dst], "attrs")
        /\ Attrs(last.dst) = IF last.hasM THEN last.m ELSE EmptyDict

C4_Witness ==
    /\ last.op = "Construct"
    /\ ~last.hasM
    /\ last.src # 0
    /\ Attrs(last.src) # EmptyDict
    /\ Attrs(last.dst) = EmptyDict

\* C5: Deserialize of a state with k+1 slots (k >= 0) succeeds and yields an
\* instance with attrs from slot 0, extra_attr_i from slot i for i in 1..k,
\* and allow-list [attrs, extra_attr_1, ..., extra_attr_k], so the gate
\* accepts a SetAttribute of every extra_attr_i on it.
C5_DeserializeExtras ==
    (last.op = "Deserialize" /\ Len(last.own) >= 1) =>
        /\ last.ok
        /\ HasAttr(inst[last.dst], "attrs")
        /\ Attrs(last.dst) = last.own[1]
        /\ Allowed(last.dst) = ExtendedList(Len(last.own) - 1)
        /\ \A n \in 1..(Len(last.own) - 1) :
              /\ HasAttr(inst[last.dst], ExtraName(n))
              /\ heap[inst[last.dst].attr[ExtraName(n)]] = last.own[n + 1]
              /\ dm_setattr(inst[last.dst], clsAllowed, ExtraName(n), 1).ok

C5_Witness ==
    /\ last.op = "Deserialize"
    /\ last.ok
    /\ Len(last.own) = MaxExtra + 1
    /\ last.own[1] # last.own[2]
    /\ Allowed(last.dst) = ExtendedList(MaxExtra)

\* the mapping dict builds from the positional mapping and the keyword pairs
\* other than attrs
SDExpected ==
    LET kw == {p \in sd.kwargs : p[1] # "attrs"}
        pos == IF Len(sd.args) = 1 THEN sd.args[1] ELSE {}
    IN {p \in pos : \A q \in kw : q[1] # p[1]} \cup kw

\* C6: a constructed SpaceData has attrs; attrs is the attrs keyword's value
\* when that value has __getitem__ and the empty mapping otherwise; "attrs"
\* is a key of the mapping only if the positional mapping has it; and the
\* contents are what dict builds from the positional mapping and the
\* keyword pairs other than attrs.
C6_SpaceDataInit ==
    sd.made =>
        /\ sd.hasAttrs
        /\ sd.attrs = IF HasKey(sd.kwargs, "attrs") /\ Get(sd.kwargs, "attrs").getitem
                      THEN Get(sd.kwargs, "attrs")
                      ELSE EmptyAttrs
        /\ HasKey(sd.content, "attrs") =>
              /\ Len(sd.args) = 1
              /\ HasKey(sd.args[1], "attrs")
              /\ Get(sd.content, "attrs") = Get(sd.args[1], "attrs")
        /\ sd.content = SDExpected

C6_Witness ==
    /\ sd.made
    /\ HasKey(sd.kwargs, "attrs")
    /\ ~Get(sd.kwargs, "attrs").getitem
    /\ HasKey(sd.kwargs, "x")
    /\ Len(sd.args) = 1
    /\ HasKey(sd.args[1], "x")
    /\ Get(sd.args[1], "x") # Get(sd.kwargs, "x")
    /\ sd.attrs = EmptyAttrs
    /\ ~HasKey(sd.content, "attrs")

\* C7 (as claimed): an instance not made by Deserialize starts with the
\* allow-list [attrs], and the only step that changes the allow-list of an
\* existing instance is a Deserialize.
C7_AllowListOnlyByDeserialize ==
    [][/\ \A i \in Insts :
             Len(inst') >= i /\ AllowedOf(inst'[i], clsAllowed') # Allowed(i)
                 => last'.op = "Deserialize"
       /\ (Len(inst') > Len(inst) /\ last'.op # "Deserialize")
             => AllowedOf(inst'[Len(inst')], clsAllowed') = <<"attrs">>]_vars

\* i and j are a derived instance and its source, or two instances derived
\* from the same source
Related(i, j) ==
    \/ origin[i] = j
    \/ origin[j] = i
    \/ (origin[i] # 0 /\ origin[i] = origin[j])

\* C8 (as claimed): a step that rebinds no attribute and changes the
\* contents of one instance's attrs mapping leaves unchanged the attrs of
\* every instance related to it by derivation.
C8_DerivedAttrsIndependent ==
    [][\A i \in Insts, j \in Insts :
          (/\ i # j
           /\ Related(i, j)
           /\ inst' = inst
           /\ AttrsOf(inst[i], heap') # AttrsOf(inst[i], heap))
              => AttrsOf(inst[j], heap') = AttrsOf(inst[j], heap)]_vars

\* C9 (as claimed): right after a Derive from a source whose allow-list was
\* extended by Deserialize, the derived instance holds, for every name in the
\* source's allow-list, the value the source holds for it.
C9_DeriveCopiesSourceList ==
    (/\ last.op = "Derive"
     /\ last.src # 0
     /\ \E k \in 1..MaxExtra : Allowed(last.src) = ExtendedList(k)) =>
        \A p \in 1..Len(Allowed(last.src)) :
            LET n == Allowed(last.src)[p]
            IN HasAttr(inst[last.src], n) =>
                  /\ HasAttr(inst[last.dst], n)
                  /\ heap[inst[last.dst].attr[n]] = heap[inst[last.src].attr[n]]

\* C10: the class's list stays [attrs]; a freshly constructed instance has
\* the allow-list [attrs] and its gate rejects extra_attr_1; and a
\* Deserialize step changes the allow-list of no existing instance.
C10_ExtensionPerInstance ==
    /\ [](/\ clsAllowed = ClassDefault
          /\ last.op = "Construct" =>
                /\ Allowed(last.dst) = <<"attrs">>
                /\ ~dm_setattr(inst[last.dst], clsAllowed, ExtraName(1), 1).ok)
    /\ [][last'.op = "Deserialize" =>
             /\ clsAllowed' = clsAllowed
             /\ \A i \in Insts : AllowedOf(inst'[i], clsAllowed') = Allowed(i)]_vars

C10_Witness ==
    /\ last.op = "Construct"
    /\ \E j \in Insts :
          /\ j # last.dst
          /\ Allowed(j) = ExtendedList(1)
          /\ HasAttr(inst[j], ExtraName(1))
    /\ Allowed(last.dst) = <<"attrs">>

====
